---------------------------- MODULE Spec2Model ----------------------------
(***************************************************************************)
(* Model of the OctoPrint-Karmen browser view model                        *)
(* (octoprint_karmen/static/js/karmen.js).                                 *)
(*                                                                         *)
(* Strings the code builds with template literals are modelled as          *)
(* sequences of tokens: a fixed piece of markup is one token, an           *)
(* interpolated value contributes the tokens of its string conversion.     *)
(* Concatenation is \o and the empty string is << >>.                      *)
(* Version strings are sequences of one-character strings, so that         *)
(* split('.'), the regular expressions and Number() are computed.          *)
(***************************************************************************)
EXTENDS Integers, Sequences, FiniteSets, TLC

VARIABLES
    connectionStatus,             \* self.connectionStatus observable
    iconTitle,                    \* self.iconTitle observable
    connectionStatusDescription,  \* self.connectionStatusDescription observable
    last,                         \* the message handled last (plugin, data)
    before,                       \* the display fields when that message arrived
    pc,                           \* position inside the message handler
    version,                      \* info.systeminfo["octoprint.version"] of the host
    logins,                       \* number of "user logged in" events so far
    requests,                     \* getInfo() promise of each login and view model
    notifications,                \* PNotify notifications created, per login
    v1, v2, options,              \* arguments of a versionCompare call
    result,                       \* its return value
    fires,                        \* value of the caller's test `result < 0`
    applied                       \* whether the call has been made

displayVars == <<connectionStatus, iconTitle, connectionStatusDescription>>
statusVars  == <<connectionStatus, iconTitle, connectionStatusDescription, last, before, pc>>
loginVars   == <<version, logins, requests, notifications>>
compareVars == <<v1, v2, options, result, fires, applied>>
vars        == <<statusVars, loginVars, compareVars>>

-----------------------------------------------------------------------------
(* JavaScript values that occur in a push message *)

Undefined == [type |-> "undefined"]
JSString(s) == [type |-> "string", val |-> s]

\* ToBoolean of a message field: undefined and "" are falsy
Truthy(x) == x.type = "string" /\ x.val # ""

\* `${x}` : string conversion inside a template literal
Str(x) ==
    IF x.type = "undefined" THEN <<"undefined">>
    ELSE IF x.val = "" THEN << >>
    ELSE <<x.val>>

PluginIdentifier == "karmen"

-----------------------------------------------------------------------------
(* Inputs of the message handler *)

Plugins      == {"karmen", "other"}
StatusValues == {Undefined, JSString(""), JSString("connecting"), JSString("connected"),
                 JSString("disconnecting"), JSString("disconnected"), JSString("foo")}
ErrorTexts   == {"timeout", "refused"}
AdviseTexts  == {"check network", "restart"}
ErrorValues  == {Undefined, JSString("")} \cup {JSString(t) : t \in ErrorTexts}
AdviseValues == {Undefined, JSString("")} \cup {JSString(t) : t \in AdviseTexts}
DataValues   == [connectionStatus : StatusValues, error : ErrorValues, advise : AdviseValues]
Messages     == [plugin : Plugins, data : DataValues]
NoMessage    == [plugin |-> "none"]

-----------------------------------------------------------------------------
(* The message handler, karmen.js lines 99-134 *)

TitleConnected     == "<span class=\"text-success\">Connected</span>"
TitleConnecting    == "<span class=\"text-warning\">Connecting ...</span>"
TitleDisconnecting == "<span class=\"text-warning\">Disconnecting ...</span>"
TitleError         == "<span class=\"text-error\">Connection error</span>"
TitleDisconnected  == "<span class=\"text-warning\">Disconnected</span>"
TextConnected      == "Click the icon to go to see your printer in Karmen Cloud."
TextConnecting     == "Connecting to Karmen servers. "
TextDisconnecting  == "Disconnecting from Karmen."
LastErrorOpen      == "<p>Last error was:</p> <pre>"
LastErrorClose     == "</pre>"
AdviseOpen         == "<p class=\"text-error\">"
AdviseClose        == "</p>"
AdviseCloseError   == "</p><p>Error:<pre>"
ErrorClose         == ".</pre></p>"

\* line 106: `karmen-status-${status}`
StatusClass(status) == <<"karmen-status-">> \o Str(status)

\* line 107: `${status}`
RawTitle(status) == Str(status)

\* lines 115-132, the writes of self.iconTitle: the title of a branch, or
\* `old` when no branch matches
BranchTitle_swapped(data, old) ==
    LET status == data.connectionStatus IN
    IF status = JSString("connected") THEN <<TitleConnected>>
    ELSE IF status = JSString("connecting") THEN <<TitleConnecting>>
    ELSE IF status = JSString("disconnecting") THEN <<TitleDisconnecting>>
    ELSE IF status = JSString("disconnected")
         THEN IF Truthy(data.error) THEN <<TitleDisconnected>> ELSE <<TitleError>>
    ELSE old

BranchTitle(data, old) ==
    LET status == data.connectionStatus IN
    IF status = JSString("connected") THEN <<TitleConnected>>
    ELSE IF status = JSString("connecting") THEN <<TitleConnecting>>
    ELSE IF status = JSString("disconnecting") THEN <<TitleDisconnecting>>
    ELSE IF status = JSString("disconnected")
         THEN IF Truthy(data.error) THEN <<TitleError>> ELSE <<TitleDisconnected>>
    ELSE old

\* lines 108-114: status_description, computed and never used
StatusDescription(data) ==
    IF Truthy(data.error)
    THEN Str(data.error) \o (IF Truthy(data.advise)
                             THEN <<"<p>">> \o Str(data.advise) \o <<"</p>">>
                             ELSE << >>)
    ELSE << >>

\* lines 115-132, the writes of self.connectionStatusDescription
BranchDescription_fallback(data, old) ==
    LET status == data.connectionStatus IN
    IF status = JSString("connected") THEN <<TextConnected>>
    ELSE IF status = JSString("connecting")
         THEN <<TextConnecting>> \o
              (IF Truthy(data.error)
               THEN <<LastErrorOpen>> \o Str(data.error) \o <<LastErrorClose>>
               ELSE << >>)
    ELSE IF status = JSString("disconnecting") THEN <<TextDisconnecting>>
    ELSE IF status = JSString("disconnected")
         THEN IF Truthy(data.error)
              THEN <<AdviseOpen>> \o Str(data.advise) \o <<AdviseCloseError>>
                   \o Str(data.error) \o <<ErrorClose>>
              ELSE <<AdviseOpen>> \o Str(data.advise) \o <<AdviseClose>>
    ELSE StatusDescription(data)

BranchDescription_stale(data, old) ==
    LET status == data.connectionStatus IN
    IF status = JSString("connected") THEN old
    ELSE IF status = JSString("connecting")
         THEN <<TextConnecting>> \o
              (IF Truthy(data.error)
               THEN <<LastErrorOpen>> \o Str(data.error) \o <<LastErrorClose>>
               ELSE << >>)
    ELSE IF status = JSString("disconnecting") THEN <<TextDisconnecting>>
    ELSE IF status = JSString("disconnected")
         THEN IF Truthy(data.error)
              THEN <<AdviseOpen>> \o Str(data.advise) \o <<AdviseCloseError>>
                   \o Str(data.error) \o <<ErrorClose>>
              ELSE <<AdviseOpen>> \o Str(data.advise) \o <<AdviseClose>>
    ELSE old

BranchDescription(data, old) ==
    LET status == data.connectionStatus IN
    IF status = JSString("connected") THEN <<TextConnected>>
    ELSE IF status = JSString("connecting")
         THEN <<TextConnecting>> \o
              (IF Truthy(data.error)
               THEN <<LastErrorOpen>> \o Str(data.error) \o <<LastErrorClose>>
               ELSE << >>)
    ELSE IF status = JSString("disconnecting") THEN <<TextDisconnecting>>
    ELSE IF status = JSString("disconnected")
         THEN IF Truthy(data.error)
              THEN <<AdviseOpen>> \o Str(data.advise) \o <<AdviseCloseError>>
                   \o Str(data.error) \o <<ErrorClose>>
              ELSE <<AdviseOpen>> \o Str(data.advise) \o <<AdviseClose>>
    ELSE old

\* lines 115, 118, 121, 124: whether one of the four branches matches
Recognized(status) ==
    status \in {JSString("connected"), JSString("connecting"),
                JSString("disconnecting"), JSString("disconnected")}

\* the display fields as one value
Display(cs, it, csd) ==
    [connectionStatus |-> cs, iconTitle |-> it, connectionStatusDescription |-> csd]

CurrentDisplay == Display(connectionStatus, iconTitle, connectionStatusDescription)

\* lines 99-134: the display fields when the handler returns
onDataUpdaterPluginMessage_unguarded(plugin, data, d) ==
    IF Truthy(data.connectionStatus)
    THEN Display(StatusClass(data.connectionStatus),
                 BranchTitle(data, RawTitle(data.connectionStatus)),
                 BranchDescription(data, d.connectionStatusDescription))
    ELSE d

onDataUpdaterPluginMessage(plugin, data, d) ==
    IF plugin # PluginIdentifier THEN d
    ELSE IF Truthy(data.connectionStatus)
    THEN Display(StatusClass(data.connectionStatus),
                 BranchTitle(data, RawTitle(data.connectionStatus)),
                 BranchDescription(data, d.connectionStatusDescription))
    ELSE d

\* lines 95-97
InitialDisplay ==
    Display(<<"karmen-status-", "connecting">>,
            <<"<span class='text-info'>Loading</span>">>,
            <<"Loading and connecting to Karmen cloud.">>)


-----------------------------------------------------------------------------
(* The compatibility check, karmen.js lines 136-201 (and its copy, 10-75) *)

\* JavaScript numbers returned by versionCompare
Num(n) == [nan |-> FALSE, val |-> n]
NaN    == [nan |-> TRUE, val |-> 0]

\* `x < 0` for a JavaScript number: every comparison with NaN is false
LessThanZero_nan(x) == x.nan \/ x.val < 0

LessThanZero(x) == ~x.nan /\ x.val < 0

\* the options argument: undefined, or an object with the two flags
NoOptions == [type |-> "undefined"]
Opt(lex, ze) == [type |-> "object", lexicographical |-> lex, zeroExtend |-> ze]

Digits  == {"0", "1", "2", "3", "4", "5", "6", "7", "8", "9"}
Letters == {"a", "b", "A", "B"}

\* characters in the order of their UTF-16 code units
CodeOrder == <<".", "0", "1", "2", "3", "4", "5", "6", "7", "8", "9", "A", "B", "a", "b">>
CharCode(c) == CHOOSE i \in 1..Len(CodeOrder) : CodeOrder[i] = c

DigitValue(c) == CharCode(c) - CharCode("0")

\* s.split('.') : the parts between the dots, empty parts included
RECURSIVE Split(_)
Split(s) ==
    IF \A i \in 1..Len(s) : s[i] # "."
    THEN <<s>>
    ELSE LET k == CHOOSE i \in 1..Len(s) :
                      s[i] = "." /\ \A j \in 1..(i - 1) : s[j] # "."
         IN <<SubSeq(s, 1, k - 1)>> \o Split(SubSeq(s, k + 1, Len(s)))

\* lines 144-146: /^\d+[A-Za-z]*$/ in lexicographical mode, /^\d+$/ otherwise
isValidPart_lax(x, lexicographical) ==
    IF lexicographical
    THEN \E k \in 1..Len(x) :
             /\ \A i \in 1..k : x[i] \in Digits
             /\ \A i \in (k + 1)..Len(x) : x[i] \in Letters
    ELSE \A i \in 1..Len(x) : x[i] \in Digits

isValidPart(x, lexicographical) ==
    IF lexicographical
    THEN \E k \in 1..Len(x) :
             /\ \A i \in 1..k : x[i] \in Digits
             /\ \A i \in (k + 1)..Len(x) : x[i] \in Letters
    ELSE Len(x) > 0 /\ \A i \in 1..Len(x) : x[i] \in Digits

\* parts.every(isValidPart)
Every(parts, lexicographical) ==
    \A i \in 1..Len(parts) : isValidPart(parts[i], lexicographical)

\* Number(x) of a string of digits
RECURSIVE Number(_)
Number(x) ==
    IF Len(x) = 0 THEN 0
    ELSE 10 * Number(SubSeq(x, 1, Len(x) - 1)) + DigitValue(x[Len(x)])

\* a > b for two strings: by code units, a proper prefix is smaller
RECURSIVE StringGreater(_, _)
StringGreater(a, b) ==
    IF Len(a) = 0 THEN FALSE
    ELSE IF Len(b) = 0 THEN TRUE
    ELSE IF a[1] # b[1] THEN CharCode(a[1]) > CharCode(b[1])
    ELSE StringGreater(Tail(a), Tail(b))

\* lines 152-155: push "0" onto the shorter list
RECURSIVE Pad(_, _)
Pad(parts, n) == IF Len(parts) < n THEN Pad(Append(parts, <<"0">>), n) ELSE parts

\* lines 157-160: parts.map(Number) unless lexicographical
Convert(parts, lexicographical) ==
    IF lexicographical THEN parts ELSE [i \in 1..Len(parts) |-> Number(parts[i])]

\* v1parts[i] > v2parts[i] : numbers, or strings in lexicographical mode
PartGreater(a, b, lexicographical) ==
    IF lexicographical THEN StringGreater(a, b) ELSE a > b

\* lines 162-182: the scan from index i (1-based here), then the length check
RECURSIVE Scan_equalPrefix(_, _, _, _)
Scan_equalPrefix(p1, p2, i, lexicographical) ==
    IF i > Len(p1)
    THEN Num(0)
    ELSE IF Len(p2) = i - 1 THEN Num(1)
    ELSE IF p1[i] = p2[i] THEN Scan_equalPrefix(p1, p2, i + 1, lexicographical)
    ELSE IF PartGreater(p1[i], p2[i], lexicographical) THEN Num(1)
    ELSE Num(-1)

RECURSIVE Scan_longerLess(_, _, _, _)
Scan_longerLess(p1, p2, i, lexicographical) ==
    IF i > Len(p1)
    THEN IF Len(p1) # Len(p2) THEN Num(-1) ELSE Num(0)
    ELSE IF Len(p2) = i - 1 THEN Num(-1)
    ELSE IF p1[i] = p2[i] THEN Scan_longerLess(p1, p2, i + 1, lexicographical)
    ELSE IF PartGreater(p1[i], p2[i], lexicographical) THEN Num(1)
    ELSE Num(-1)

RECURSIVE Scan(_, _, _, _)
Scan(p1, p2, i, lexicographical) ==
    IF i > Len(p1)
    THEN IF Len(p1) # Len(p2) THEN Num(-1) ELSE Num(0)
    ELSE IF Len(p2) = i - 1 THEN Num(1)
    ELSE IF p1[i] = p2[i] THEN Scan(p1, p2, i + 1, lexicographical)
    ELSE IF PartGreater(p1[i], p2[i], lexicographical) THEN Num(1)
    ELSE Num(-1)

\* lines 138-183
versionCompare(a, b, opts) ==
    LET lexicographical == opts.type = "object" /\ opts.lexicographical
        zeroExtend      == opts.type = "object" /\ opts.zeroExtend
        v1parts == Split(a)
        v2parts == Split(b)
    IN  IF ~Every(v1parts, lexicographical) \/ ~Every(v2parts, lexicographical)
        THEN NaN
        ELSE LET e1 == IF zeroExtend THEN Pad(v1parts, Len(v2parts)) ELSE v1parts
                 e2 == IF zeroExtend THEN Pad(v2parts, Len(e1)) ELSE v2parts
             IN  Scan(Convert(e1, lexicographical), Convert(e2, lexicographical),
                      1, lexicographical)

\* line 186: the minimum version "1.8"
MinVersion == <<"1", ".", "8">>

\* lines 185-195: whether the continuation creates the notification
ShowsNotification(hostVersion) ==
    LessThanZero(versionCompare(hostVersion, MinVersion, NoOptions))


-----------------------------------------------------------------------------
(* Inputs of the compatibility check *)

MaxParts  == 3
MaxLogins == 2

\* the two view models the file registers (lines 78-82 and 209-213)
ViewModels == {"first", "second"}

\* versions a host may report
HostVersions ==
    { <<"1", ".", "7", ".", "9">>, <<"1", ".", "8">>, <<"1", ".", "8", ".", "0">>,
      <<"1", ".", "8", ".", "1">>, <<"1", ".", "1", "0", ".", "0">>, <<"1">>,
      <<"0", ".", "1", "7">>, <<"2", ".", "0">>, <<"1", ".", "a">>,
      <<"1", ".", "9", "r", "c", "1">>, <<"1", ".", ".", "8">>, << >> }

\* parts of the version strings versionCompare is applied to
Parts == { <<"0">>, <<"2">>, <<"1", "a">>, << >> }

RECURSIVE Join(_)
Join(parts) ==
    IF Len(parts) = 1 THEN parts[1]
    ELSE parts[1] \o <<".">> \o Join(Tail(parts))

Versions ==
    UNION { { Join(ps) : ps \in [1..n -> Parts] } : n \in 1..MaxParts }

OptionValues == {NoOptions, Opt(TRUE, FALSE), Opt(FALSE, TRUE), Opt(TRUE, TRUE)}

-----------------------------------------------------------------------------
(* States after construction *)

\* lines 95-97
StatusInit ==
    /\ connectionStatus = InitialDisplay.connectionStatus
    /\ iconTitle = InitialDisplay.iconTitle
    /\ connectionStatusDescription = InitialDisplay.connectionStatusDescription
    /\ last = NoMessage
    /\ before = InitialDisplay
    /\ pc = "idle"

\* nobody has logged in
LoginInit(hostVersions) ==
    /\ version \in hostVersions
    /\ logins = 0
    /\ requests = [l \in 1..MaxLogins |-> [vm \in ViewModels |-> "none"]]
    /\ notifications = [l \in 1..MaxLogins |-> 0]

\* no call of versionCompare yet, with arguments a, b, o
CompareInit(as, bs, os) ==
    /\ v1 \in as
    /\ v2 \in bs
    /\ options \in os
    /\ result = NaN
    /\ fires = FALSE
    /\ applied = FALSE

-----------------------------------------------------------------------------
(* The message handler as one step (lines 99-134) *)

DataUpdaterPluginMessage ==
    \E m \in Messages :
        /\ pc = "idle"
        /\ last' = m
        /\ before' = CurrentDisplay
        /\ LET d == onDataUpdaterPluginMessage(m.plugin, m.data, CurrentDisplay)
           IN  /\ connectionStatus' = d.connectionStatus
               /\ iconTitle' = d.iconTitle
               /\ connectionStatusDescription' = d.connectionStatusDescription
        /\ UNCHANGED <<pc, loginVars, compareVars>>

Init == StatusInit /\ LoginInit({MinVersion}) /\ CompareInit({MinVersion}, {MinVersion}, {NoOptions})
Next == DataUpdaterPluginMessage
Spec == Init /\ [][Next]_vars

-----------------------------------------------------------------------------
(* The message handler write by write: every write of an observable is a   *)
(* point at which its subscribers run and read the fields                  *)

\* lines 99-105: the call, up to the first write
Receive ==
    \E m \in Messages :
        /\ pc = "idle"
        /\ last' = m
        /\ before' = CurrentDisplay
        /\ pc' = IF m.plugin # PluginIdentifier \/ ~Truthy(m.data.connectionStatus)
                 THEN "idle" ELSE "line106"
        /\ UNCHANGED <<displayVars, loginVars, compareVars>>

\* line 106
WriteConnectionStatus ==
    /\ pc = "line106"
    /\ connectionStatus' = StatusClass(last.data.connectionStatus)
    /\ pc' = "line107"
    /\ UNCHANGED <<iconTitle, connectionStatusDescription, last, before, loginVars, compareVars>>

\* line 107
WriteRawTitle ==
    /\ pc = "line107"
    /\ iconTitle' = RawTitle(last.data.connectionStatus)
    /\ pc' = "branch"
    /\ UNCHANGED <<connectionStatus, connectionStatusDescription, last, before, loginVars, compareVars>>

\* lines 116, 119, 122, 126, 129: the title of the matching branch;
\* no branch matches: the handler returns
WriteBranchTitle ==
    /\ pc = "branch"
    /\ iconTitle' = BranchTitle(last.data, iconTitle)
    /\ pc' = IF Recognized(last.data.connectionStatus) THEN "description" ELSE "idle"
    /\ UNCHANGED <<connectionStatus, connectionStatusDescription, last, before, loginVars, compareVars>>

\* lines 117, 120, 123, 127, 130
WriteBranchDescription ==
    /\ pc = "description"
    /\ connectionStatusDescription' = BranchDescription(last.data, connectionStatusDescription)
    /\ pc' = "idle"
    /\ UNCHANGED <<connectionStatus, iconTitle, last, before, loginVars, compareVars>>

NextSteps ==
    \/ Receive
    \/ WriteConnectionStatus
    \/ WriteRawTitle
    \/ WriteBranchTitle
    \/ WriteBranchDescription
SpecSteps == Init /\ [][NextSteps]_vars

-----------------------------------------------------------------------------
(* Logins and the version query (lines 136-201, and the copy 10-75) *)

\* the host's "user logged in" event: onUserLoggedIn of every registered
\* view model runs (lines 73-75 and 199-201), each calls performCheck, which
\* sends its own getInfo() request (lines 11 and 137)
UserLoggedIn ==
    /\ logins < MaxLogins
    /\ logins' = logins + 1
    /\ requests' = [requests EXCEPT ![logins + 1] = [vm \in ViewModels |-> "pending"]]
    /\ UNCHANGED <<version, notifications, statusVars, compareVars>>

\* the promise of one request is fulfilled: the continuation runs
\* (lines 11-70 and 137-196)
GetInfoThen ==
    \E l \in 1..logins, vm \in ViewModels :
        /\ requests[l][vm] = "pending"
        /\ requests' = [requests EXCEPT ![l][vm] = "fulfilled"]
        /\ notifications' = [notifications EXCEPT ![l] =
                                IF ShowsNotification(version) THEN @ + 1 ELSE @]
        /\ UNCHANGED <<version, logins, statusVars, compareVars>>

\* the promise is rejected: then() was given no rejection handler
GetInfoRejected ==
    \E l \in 1..logins, vm \in ViewModels :
        /\ requests[l][vm] = "pending"
        /\ requests' = [requests EXCEPT ![l][vm] = "rejected"]
        /\ UNCHANGED <<version, logins, notifications, statusVars, compareVars>>

InitLogin == StatusInit /\ LoginInit(HostVersions) /\ CompareInit({MinVersion}, {MinVersion}, {NoOptions})
NextLogin == UserLoggedIn \/ GetInfoThen \/ GetInfoRejected
SpecLogin == InitLogin /\ [][NextLogin]_vars

-----------------------------------------------------------------------------
(* versionCompare applied to drawn arguments, and the caller's test *)

Compare ==
    /\ ~applied
    /\ applied' = TRUE
    /\ result' = versionCompare(v1, v2, options)
    /\ fires' = LessThanZero(result')
    /\ UNCHANGED <<v1, v2, options, statusVars, loginVars>>

InitCompare == StatusInit /\ LoginInit({MinVersion}) /\ CompareInit(Versions, Versions \cup {MinVersion}, OptionValues)
NextCompare == Compare
SpecCompare == InitCompare /\ [][NextCompare]_vars


-----------------------------------------------------------------------------
(* Properties of the message handler *)

StatusNames == {"connecting", "connected", "disconnecting", "disconnected"}

Handled     == last # NoMessage
Addressed   == Handled /\ last.plugin = "karmen"
KnownStatus == last.data.connectionStatus \in {JSString(n) : n \in StatusNames}
Accepted    == Addressed /\ KnownStatus
Unknown     == Addressed /\ ~KnownStatus

\* a field of the message that carries a text
Present(x) == x \in {JSString(t) : t \in ErrorTexts \cup AdviseTexts}

Tokens(seq) == {seq[i] : i \in 1..Len(seq)}

C2_OtherPlugin ==
    (Handled /\ last.plugin # "karmen") => (CurrentDisplay = before /\ pc = "idle")

C2_Witness ==
    /\ Handled
    /\ last.plugin = "other"
    /\ last.data.connectionStatus = JSString("connected")
    /\ Present(last.data.error)
    /\ before.iconTitle = <<TitleDisconnecting>>
    /\ iconTitle = <<TitleDisconnecting>>

\* C3: for each of the four status values the fields are those of the table:
\* the class is derived from the status, the title is the one of the status
\* (for disconnected "Connection error" exactly when an error is present),
\* and the description is the fixed text of the status, with the error block
\* exactly when the table asks for it and an error is present, and with the
\* advise for disconnected.
C3_Table ==
    Accepted =>
        LET s   == last.data.connectionStatus.val
            e   == last.data.error
            a   == last.data.advise
            d   == connectionStatusDescription
            adv == IF Present(a) THEN <<a.val>> ELSE << >>
        IN  /\ connectionStatus = <<"karmen-status-", s>>
            /\ s = "connected" =>
                   iconTitle = <<TitleConnected>> /\ d = <<TextConnected>>
            /\ s = "connecting" =>
                   /\ iconTitle = <<TitleConnecting>>
                   /\ d = IF Present(e)
                          THEN <<TextConnecting, LastErrorOpen, e.val, LastErrorClose>>
                          ELSE <<TextConnecting>>
            /\ s = "disconnecting" =>
                   iconTitle = <<TitleDisconnecting>> /\ d = <<TextDisconnecting>>
            /\ s = "disconnected" =>
                   /\ iconTitle = IF Present(e) THEN <<TitleError>> ELSE <<TitleDisconnected>>
                   /\ Head(d) = AdviseOpen
                   /\ IF Present(e)
                      THEN /\ SubSeq(d, Len(d) - 2, Len(d)) = <<AdviseCloseError, e.val, ErrorClose>>
                           /\ a # Undefined => d = <<AdviseOpen>> \o adv \o <<AdviseCloseError, e.val, ErrorClose>>
                      ELSE /\ d[Len(d)] = AdviseClose
                           /\ Tokens(d) \cap ErrorTexts = {}
                           /\ a # Undefined => d = <<AdviseOpen>> \o adv \o <<AdviseClose>>

C3_Witness ==
    /\ Accepted
    /\ last.data.connectionStatus = JSString("disconnected")
    /\ last.data.error = JSString("timeout")
    /\ last.data.advise = JSString("check network")
    /\ iconTitle = <<TitleError>>
    /\ connectionStatusDescription =
           <<AdviseOpen, "check network", AdviseCloseError, "timeout", ErrorClose>>

\* the title and the description hold no error or advise text but the
\* texts of the message handled last
Fresh ==
    (Tokens(iconTitle) \cup Tokens(connectionStatusDescription))
        \cap (ErrorTexts \cup AdviseTexts)
    \subseteq {x.val : x \in {y \in {last.data.error, last.data.advise} : Present(y)}}

\* C5: once a message is accepted the title and the description depend on
\* that message alone (they are what the same message gives from the initial
\* display, and hold no error or advise text of an earlier message), and
\* handling the same message once more leaves the display fields unchanged.
C5_MessageOnly ==
    /\ [](Accepted =>
            /\ Fresh
            /\ CurrentDisplay = onDataUpdaterPluginMessage(last.plugin, last.data, InitialDisplay))
    /\ [][(Accepted /\ last' = last /\ before' = CurrentDisplay)
            => UNCHANGED displayVars]_vars

C5_Witness ==
    /\ Accepted
    /\ last.data.connectionStatus = JSString("connected")
    /\ last.data.error = Undefined
    /\ "timeout" \in Tokens(before.connectionStatusDescription)
    /\ "restart" \in Tokens(before.connectionStatusDescription)
    /\ connectionStatusDescription = <<TextConnected>>

\* C6 as stated: whenever a consumer can read the three fields, during or
\* after the handling of a message, it reads either the fields as they were
\* before the message or the fields as the handler leaves them.
C6_Original ==
    Handled =>
        CurrentDisplay \in {before, onDataUpdaterPluginMessage(last.plugin, last.data, before)}

\* the writes of the handler, taken together, are the handler
StepsAgree ==
    (Handled /\ pc = "idle") =>
        CurrentDisplay = onDataUpdaterPluginMessage(last.plugin, last.data, before)

\* the fixed markup of the descriptions
Markup ==
    {TextConnected, TextConnecting, TextDisconnecting, LastErrorOpen, LastErrorClose,
     AdviseOpen, AdviseClose, AdviseCloseError, ErrorClose}

\* C7 as stated: for a message with one of the four status values the
\* description holds fixed markup and the texts of the fields that are
\* present, and nothing that stands for an absent error or advise.
C7_Original ==
    (Accepted /\ pc = "idle") =>
        Tokens(connectionStatusDescription) \subseteq
            Markup \cup {x.val : x \in {y \in {last.data.error, last.data.advise} : Present(y)}}

-----------------------------------------------------------------------------
(* Properties of the compatibility check *)

\* C4 as stated: every login starts the check once, so that when the answers
\* of a login have come it has produced one notification if the host version
\* is less than the minimum, and none otherwise.
C4_Original ==
    \A l \in 1..logins :
        (\A vm \in ViewModels : requests[l][vm] \in {"none", "fulfilled"})
            => notifications[l] = IF ShowsNotification(version) THEN 1 ELSE 0

\* the pattern of a part, stated on its characters
MatchesPattern(x, lex) ==
    /\ Len(x) >= 1
    /\ x[1] \in Digits
    /\ \A i \in 1..Len(x) : x[i] \in Digits \cup (IF lex THEN Letters ELSE {})
    /\ \A i, j \in 1..Len(x) : (i < j /\ x[i] \in Letters) => x[j] \in Letters

LexMode  == options # NoOptions /\ options.lexicographical
ZeroMode == options # NoOptions /\ options.zeroExtend

ValidVersion(v) == \A i \in 1..Len(Split(v)) : MatchesPattern(Split(v)[i], LexMode)

\* the values the parts are compared by
Values(v) == Convert(Split(v), LexMode)

\* C8: without zeroExtend and for valid version strings, the first differing
\* part decides; when one sequence of parts is a proper prefix of the other
\* the shorter operand is less and the longer greater; the result is equal
\* only for sequences of the same length with equal parts.
C8_PartByPart ==
    (applied /\ ~ZeroMode /\ ValidVersion(v1) /\ ValidVersion(v2)) =>
        LET p1 == Values(v1)
            p2 == Values(v2)
            m  == IF Len(p1) < Len(p2) THEN Len(p1) ELSE Len(p2)
            diff == {i \in 1..m : p1[i] # p2[i]}
        IN  IF diff # {}
            THEN LET k == CHOOSE i \in diff : \A j \in diff : i <= j
                 IN  result = IF PartGreater(p1[k], p2[k], LexMode) THEN Num(1) ELSE Num(-1)
            ELSE IF Len(p1) < Len(p2) THEN result = Num(-1)
            ELSE IF Len(p1) > Len(p2) THEN result = Num(1)
            ELSE result = Num(0)

C8_Witness ==
    /\ applied
    /\ options = NoOptions
    /\ v1 = <<"2", ".", "0">>
    /\ v2 = <<"2", ".", "0", ".", "0">>
    /\ result = Num(-1)

\* C9: versionCompare returns the not-a-number value exactly when a part of
\* either operand fails the pattern of the mode, empty parts included, and
\* for such a result the caller's test is false: no notification.
C9_NotANumber ==
    applied =>
        /\ (result = NaN) <=> (~ValidVersion(v1) \/ ~ValidVersion(v2))
        /\ (result = NaN) => ~fires

C9_Witness ==
    /\ applied
    /\ options = NoOptions
    /\ v1 = <<"2", ".">>
    /\ v2 = MinVersion
    /\ result = NaN
    /\ ~fires

\* C10: for valid version strings and fixed options, compare(a, b) is less
\* iff compare(b, a) is greater, and equal iff compare(b, a) is equal.
C10_Antisymmetric ==
    (applied /\ ValidVersion(v1) /\ ValidVersion(v2)) =>
        LET swapped == versionCompare(v2, v1, options)
        IN  /\ (result = Num(-1)) <=> (swapped = Num(1))
            /\ (result = Num(1)) <=> (swapped = Num(-1))
            /\ (result = Num(0)) <=> (swapped = Num(0))

C10_Witness ==
    /\ applied
    /\ options = NoOptions
    /\ v1 = <<"2", ".", "0">>
    /\ v2 = <<"2">>
    /\ result = Num(1)

=============================================================================
